---- MODULE Spec2Model ----
(***************************************************************************)
(* A model of the column-family wrapper of pyrex (src/src/pyrex/_pyrex.cpp):*)
(* one PyRocksDBExtended session, the PyColumnFamilyHandle objects it hands *)
(* out, the PyRocksDBIterator leases it creates, and the engine objects     *)
(* (rocksdb::DB, rocksdb::ColumnFamilyHandle, rocksdb::Iterator) they wrap. *)
(* The bindings release the interpreter lock around every session and       *)
(* iterator method, so a method is a sequence of steps of a thread.         *)
(***************************************************************************)
EXTENDS Integers, FiniteSets, Sequences, TLC

(* ------------------------------ bounds --------------------------------- *)
\* Handle objects the session may create over its life (the default one included).
MaxHandles == 3
\* Iterator leases the session may create over its life.
MaxIters == 2
\* Calls a threaded caller makes in all (a caller that is not threaded is not
\* bounded: its calls do not overlap).
MaxThreadedCalls == 4
\* Records of followed keys a caller stages in the write batch before it
\* clears the batch.
MaxBatch == 3

Threads == {"t1", "t2"}
\* The PyColumnFamilyHandle objects this session constructs.
HandleIds == 1..MaxHandles
\* A PyColumnFamilyHandle object another PyRocksDBExtended session constructed,
\* for a column family of its own store; that session stays open.
OtherHandle == MaxHandles + 1
HandleObjs == HandleIds \cup {OtherHandle}
IterIds == 1..MaxIters

(* --------------------------- program constants -------------------------- *)
\* nullptr
NULL == 0
\* The one rocksdb::DB object DB::Open stored into db_.
DBPTR == 1
\* rocksdb::kDefaultColumnFamilyName
kDefaultColumnFamilyName == "default"
\* Names a caller passes to create_column_family.
CFNames == {kDefaultColumnFamilyName, "cf1"}
\* The methods of PyRocksDBIterator.
IterMethods == {"valid", "seek_to_first", "seek_to_last", "seek", "next",
                "prev", "key", "value", "check_status"}
\* A rocksdb::Status as the wrapper tells them apart: ok() or not.
EngineStatus == {"ok", "engine_error"}

\* The keys whose contents the model follows, and a key that stands for all
\* the others: a call that names no key is a call on that one.
Keys == {"k1"}
OtherKey == "k0"
\* The values a caller stores: byte strings, the empty one among them.
Values == {"", "v1", "v2"}
\* What the engine has under a key: nothing, or a value.
Missing == [found |-> FALSE, value |-> ""]
Stored(v) == [found |-> TRUE, value |-> v]
\* Python objects a method returns: py::none() and py::bytes(s).
PyNone == <<"None">>
PyBytes(s) == <<"bytes", s>>
PyBool(b) == <<"bool", b>>
\* The order of the keys in a column family.
KeyOrder == <<"k1">>
\* A cursor whose view and position the model does not follow.
Untracked == [snap |-> [k \in Keys |-> Missing], at |-> "untracked"]

VARIABLES
    db_,          \* PyRocksDB::db_ : NULL or DBPTR
    is_closed_,   \* PyRocksDB::is_closed_
    cf_handles_,  \* PyRocksDB::cf_handles_ : name -> handle object, NULL if absent
    alive,        \* the session object has not been destructed
    nextH,        \* next PyColumnFamilyHandle object to be constructed
    name_,        \* PyColumnFamilyHandle::name_
    cf_handle_,   \* PyColumnFamilyHandle::cf_handle_ : NULL or the engine handle
    nextI,        \* next PyRocksDBIterator object to be constructed
    lease,        \* PyRocksDBIterator object: "none", "alive", "destroyed"
    it_,          \* PyRocksDBIterator::it_ : NULL or the engine cursor
    itCf,         \* the handle object the cursor was created over
    cur,          \* engine: what each cursor sees, and the entry it is on
    dbFreed,      \* engine: how often the DB object has been deleted
    eng,          \* engine: column family behind each engine handle
    cursorFreed,  \* engine: how often each cursor has been deleted
    kv,           \* engine: per column family, what is stored under each key of Keys
    rep_,         \* rocksdb::WriteBatch::rep_ : the records staged for keys of Keys
    wb_,          \* PyWriteBatch::wb_ : the engine families its records are for
    late,         \* an engine call went through a released (or null) DB, or its cursor
    last,         \* the call that returned last, and how
    pc,           \* per thread: the call it is in, and where
    threaded,     \* the caller uses the session from several threads at once
    started       \* calls a threaded caller has made

sessVars == <<db_, is_closed_, cf_handles_, alive>>
handleVars == <<nextH, name_, cf_handle_>>
iterVars == <<nextI, lease, it_, itCf, cur>>
engVars == <<dbFreed, eng, cursorFreed, kv>>
vars == <<db_, is_closed_, cf_handles_, alive, nextH, name_, cf_handle_,
          nextI, lease, it_, itCf, dbFreed, eng, cursorFreed, wb_, late, last, pc,
          threaded, started, kv, rep_, cur>>

(* ------------------------------ helpers -------------------------------- *)
Idle == [op |-> "idle", ph |-> "", h |-> 0, i |-> 0, nm |-> ""]
InCall(op, ph, h, i, nm) == [op |-> op, ph |-> ph, h |-> h, i |-> i, nm |-> nm]
\* What a call that returned did: its result, whether it called the engine, the
\* handle, lease or name it was given or returns, the engine families whose
\* contents it changed (ap) and the names it returned (out).
\* k and v are the key and the value it was given, val is the Python object
\* it returned.
NoCall == [op |-> "none", res |-> "", eng |-> FALSE, h |-> 0, i |-> 0, nm |-> "",
           ap |-> {}, out |-> {}, k |-> OtherKey, v |-> "", val |-> PyNone]
Returned(op, res, e, h, i, nm) ==
    [op |-> op, res |-> res, eng |-> e, h |-> h, i |-> i, nm |-> nm,
     ap |-> {}, out |-> {}, k |-> OtherKey, v |-> "", val |-> PyNone]

Quiescent == \A t \in Threads : pc[t] = Idle
Allocated == {h \in HandleIds : h < nextH}
Registered == {cf_handles_[n] : n \in CFNames} \ {NULL}
\* The handle objects a caller can pass to a method.
Held == Allocated \cup {OtherHandle}

\* PyColumnFamilyHandle::is_valid
is_valid(h) == cf_handle_[h] # NULL

\* The engine DB object behind db_ can be called: db_ is set and was not deleted.
DbUsable == db_ # NULL /\ dbFreed = 0

\* A thread may start a call: it is in none, and unless the caller is threaded
\* no other thread is in one either.
CanStart(t) ==
    /\ pc[t] = Idle
    /\ IF threaded THEN started < MaxThreadedCalls ELSE Quiescent

Counted == started' = IF threaded THEN started + 1 ELSE started

\* A thread starts a call: the result of the previous call is forgotten.
Begin(t, call) ==
    /\ pc' = [pc EXCEPT ![t] = call]
    /\ last' = NoCall
    /\ Counted
    /\ UNCHANGED <<threaded, wb_, rep_>>

\* A thread's call returns (normally or by throwing RocksDBException).
Return(t, ret) ==
    /\ pc' = [pc EXCEPT ![t] = Idle]
    /\ last' = ret
    /\ UNCHANGED <<threaded, started, wb_, rep_>>

\* A call returns in the step that started it (a guard threw, or it is one step).
ReturnAtOnce(t, ret) ==
    /\ pc' = [pc EXCEPT ![t] = Idle]
    /\ last' = ret
    /\ Counted
    /\ UNCHANGED <<threaded, wb_, rep_>>

(* ------------------------------- Init ---------------------------------- *)
\* PyRocksDB::PyRocksDB on a path with no store and default options: the store
\* is created with the default column family, whose handle is registered.
Constructed ==
    /\ db_ = DBPTR
    /\ is_closed_ = FALSE
    /\ cf_handles_ = [n \in CFNames |-> IF n = kDefaultColumnFamilyName THEN 1 ELSE NULL]
    /\ alive = TRUE
    /\ nextH = 2
    /\ name_ = [h \in HandleObjs |-> IF h = 1 THEN kDefaultColumnFamilyName
                                    ELSE IF h = OtherHandle THEN "cf1" ELSE ""]
    /\ cf_handle_ = [h \in HandleObjs |-> IF h \in {1, OtherHandle} THEN h ELSE NULL]
    /\ nextI = 1
    /\ lease = [i \in IterIds |-> "none"]
    /\ it_ = [i \in IterIds |-> NULL]
    /\ itCf = [i \in IterIds |-> 0]
    /\ cur = [i \in IterIds |-> Untracked]
    /\ dbFreed = 0
    /\ eng = [h \in HandleObjs |-> IF h \in {1, OtherHandle} THEN "live" ELSE "none"]
    /\ wb_ = {}
    /\ rep_ = << >>
    /\ kv = [h \in HandleIds |-> [k \in Keys |-> Missing]]
    /\ cursorFreed = [i \in IterIds |-> 0]
    /\ late = FALSE
    /\ last = NoCall
    /\ pc = [t \in Threads |-> Idle]

Init == Constructed /\ threaded = FALSE /\ started = 0
InitConc == Constructed /\ threaded = TRUE /\ started = 0

(* ------------------------------- close --------------------------------- *)
\* close() without its guard on db_: the teardown runs on every call.
CloseBeginUnguarded(t, op) ==
    /\ alive /\ CanStart(t)
    /\ Begin(t, InCall(op, "teardown", 0, 0, ""))
    /\ UNCHANGED <<sessVars, handleVars, iterVars, engVars, late>>

\* close() line 346: if (db_ != nullptr) { ... }.  op is "close" for the bound
\* method and "dtor" for ~PyRocksDB, which calls close() and ends the object.
CloseBegin(t, op) ==
    /\ alive /\ CanStart(t)
    /\ IF db_ # NULL
         THEN /\ Begin(t, InCall(op, "teardown", 0, 0, ""))
              /\ UNCHANGED alive
         ELSE /\ ReturnAtOnce(t, Returned(op, "ok", FALSE, 0, 0, ""))
              /\ alive' = (op # "dtor")
    /\ UNCHANGED <<db_, is_closed_, cf_handles_, handleVars, iterVars, engVars, late>>

Close(t) == CloseBegin(t, "close")

\* Leases that keep the session referenced when none does.
KeptAliveNone == {}

\* new_iterator / new_cf_iterator bindings, py::keep_alive<0, 1>(): every lease
\* handed out keeps its session referenced until the lease is destroyed.
KeptAlive == {i \in IterIds : lease[i] = "alive"}

\* ~PyRocksDB: runs when nothing refers to the session any more; every lease
\* keeps its session referenced (keep_alive<0, 1>), and so does a running call.
Dtor(t) ==
    /\ KeptAlive = {}
    /\ Quiescent
    /\ CloseBegin(t, "dtor")

\* close() deleting the cursor of every live lease, the lease not being told.
CloseFreesCursorsForced == {i \in IterIds : lease[i] = "alive"}

\* The cursors close() deletes: none, the session keeps no record of them.
CloseFreesCursors == {}

\* close() without its loop over cf_handles_.
CloseInvalidatedNone == cf_handle_

\* cf_handle_ of every handle object after the loop of close(), lines 350-352.
CloseInvalidated ==
    [h \in HandleObjs |-> IF h \in Registered THEN NULL ELSE cf_handle_[h]]

\* close() lines 348-353: the flag, the loop over cf_handles_, the clear.
CloseInvalidate(t) ==
    /\ pc[t].op \in {"close", "dtor"} /\ pc[t].ph = "teardown"
    /\ is_closed_' = TRUE
    /\ cf_handle_' = CloseInvalidated
    /\ cf_handles_' = [n \in CFNames |-> NULL]
    /\ cursorFreed' = [i \in IterIds |->
                         IF i \in CloseFreesCursors /\ cursorFreed[i] < 2
                           THEN cursorFreed[i] + 1 ELSE cursorFreed[i]]
    /\ pc' = [pc EXCEPT ![t].ph = "delete"]
    /\ UNCHANGED <<db_, alive, nextH, name_, iterVars, dbFreed, eng, kv, wb_, rep_, late, last,
                   threaded, started>>

\* close() line 355: delete db_ (deleting nullptr does nothing).
CloseDelete(t) ==
    /\ pc[t].op \in {"close", "dtor"} /\ pc[t].ph = "delete"
    /\ dbFreed' = IF db_ # NULL /\ dbFreed < 2 THEN dbFreed + 1 ELSE dbFreed
    /\ pc' = [pc EXCEPT ![t].ph = "null"]
    /\ UNCHANGED <<sessVars, handleVars, iterVars, eng, cursorFreed, kv, wb_, rep_, late, last,
                   threaded, started>>

\* A close() that returns without resetting db_.
CloseNullKeepsPointer(t) ==
    /\ pc[t].op \in {"close", "dtor"} /\ pc[t].ph = "null"
    /\ alive' = (pc[t].op # "dtor")
    /\ Return(t, Returned(pc[t].op, "ok", TRUE, 0, 0, ""))
    /\ UNCHANGED <<db_, is_closed_, cf_handles_, handleVars, iterVars, engVars, late>>

\* close() line 356: db_ = nullptr, and close() returns.
CloseNull(t) ==
    /\ pc[t].op \in {"close", "dtor"} /\ pc[t].ph = "null"
    /\ db_' = NULL
    /\ alive' = (pc[t].op # "dtor")
    /\ Return(t, Returned(pc[t].op, "ok", TRUE, 0, 0, ""))
    /\ UNCHANGED <<is_closed_, cf_handles_, handleVars, iterVars, engVars, late>>

(* ------------------- calls on the default column family ----------------- *)
\* get_default_cf_handle(), lines 431-440: what it throws, or "ok".
DefaultCfLookup ==
    IF db_ = NULL THEN "db_closed"
    ELSE IF cf_handles_[kDefaultColumnFamilyName] = NULL
            \/ ~is_valid(cf_handles_[kDefaultColumnFamilyName])
         THEN "default_cf_invalid"
         ELSE "ok"

\* A session method without the guard on db_.
SessionCallBeginUnguarded(t, op, h, nm) ==
    /\ alive /\ CanStart(t)
    /\ Begin(t, InCall(op, "call", h, 0, nm))
    /\ UNCHANGED <<sessVars, handleVars, iterVars, engVars, late>>

\* The guard every session method starts with: if (db_ == nullptr) throw.
SessionCallBegin(t, op, h, nm) ==
    /\ alive /\ CanStart(t)
    /\ IF db_ = NULL
         THEN ReturnAtOnce(t, Returned(op, "db_closed", FALSE, h, 0, nm))
         ELSE Begin(t, InCall(op, "call", h, 0, nm))
    /\ UNCHANGED <<sessVars, handleVars, iterVars, engVars, late>>

\* get_default_cf_handle(), line 439: the engine handle it returns.
get_default_cf_handle == cf_handle_[cf_handles_[kDefaultColumnFamilyName]]

\* The engine families a single-key call changes: the one it is given when the
\* engine reports success of a Put or Delete, none otherwise.
Changed(op, st, f) == IF st = "ok" /\ op \in {"put", "del", "put_cf", "del_cf"} THEN {f} ELSE {}

\* The model follows what is under key k of engine family f.
Followed(f, k) == f \in HandleIds /\ k \in Keys

\* The rocksdb::Status of db_->Get(options, f, k, &value_str): NotFound when
\* the engine works and has nothing under the key.
GetStatus(st, f, k) ==
    IF st # "ok" THEN st
    ELSE IF kv[f][k].found THEN "ok" ELSE "not_found"

\* A get that returns None whenever the engine gives no value.
PyGetSwallows(status, value_str) ==
    IF status = "ok" THEN [res |-> "ok", val |-> PyBytes(value_str)]
    ELSE [res |-> "ok", val |-> PyNone]

\* get and get_cf, lines 386-392 and 486-492: what the method returns or throws.
PyGet(status, value_str) ==
    IF status = "ok" THEN [res |-> "ok", val |-> PyBytes(value_str)]
    ELSE IF status = "not_found" THEN [res |-> "ok", val |-> PyNone]
    ELSE [res |-> status, val |-> PyNone]

\* What a single-key call on family f returns: a get of a followed key what
\* PyGet makes of the engine's answer, every other call None unless it throws.
KeyCallResult(op, st, f, k) ==
    IF op \in {"get", "get_cf"} /\ Followed(f, k)
      THEN PyGet(GetStatus(st, f, k), kv[f][k].value)
      ELSE [res |-> st, val |-> PyNone]

\* A Put that stores the empty value whatever it is given.
EnginePutDropsValue(f, k, v) == [kv EXCEPT ![f][k] = Stored("")]

\* db_->Put(options, f, key, value) and db_->Delete(options, f, key) that
\* returned OK: the contents of the store afterwards.
EnginePut(f, k, v) == [kv EXCEPT ![f][k] = Stored(v)]
EngineDelete(f, k) == [kv EXCEPT ![f][k] = Missing]

\* The contents of the store after a single-key call on family f.
KvAfter(op, st, f, k, v) ==
    IF st = "ok" /\ Followed(f, k)
      THEN IF op \in {"put", "put_cf"} THEN EnginePut(f, k, v)
           ELSE IF op \in {"del", "del_cf"} THEN EngineDelete(f, k)
           ELSE kv
      ELSE kv

\* put / get / del, lines 364-405: after the guard, db_->Put/Get/Delete with
\* get_default_cf_handle() as the family.  k and v are the key and the value
\* the call was given.
DefaultCfCallKey(t, op, k, v) ==
    /\ pc[t].op = op /\ pc[t].ph = "call"
    /\ IF DefaultCfLookup # "ok"
         THEN /\ Return(t, [Returned(op, DefaultCfLookup, FALSE, 0, 0, "")
                               EXCEPT !.k = k, !.v = v])
              /\ UNCHANGED <<late, kv>>
         ELSE /\ \E st \in EngineStatus :
                   LET f == get_default_cf_handle
                       r == KeyCallResult(op, st, f, k)
                   IN /\ Return(t, [Returned(op, r.res, TRUE, 0, 0, "")
                                       EXCEPT !.ap = Changed(op, st, f),
                                              !.k = k, !.v = v, !.val = r.val])
                      /\ kv' = KvAfter(op, st, f, k, v)
              /\ late' = (late \/ ~DbUsable)
    /\ UNCHANGED <<sessVars, handleVars, iterVars, dbFreed, eng, cursorFreed>>

\* The same for a key the model does not follow.
DefaultCfCall(t, op) == DefaultCfCallKey(t, op, OtherKey, "")

Put(t) == SessionCallBegin(t, "put", 0, "")
PutCall(t) == DefaultCfCall(t, "put")
Get(t) == SessionCallBegin(t, "get", 0, "")
GetCall(t) == DefaultCfCall(t, "get")
Del(t) == SessionCallBegin(t, "del", 0, "")
DelCall(t) == DefaultCfCall(t, "del")
PutKeyCall(t, k, v) == DefaultCfCallKey(t, "put", k, v)
GetKeyCall(t, k) == DefaultCfCallKey(t, "get", k, "")
DelKeyCall(t, k) == DefaultCfCallKey(t, "del", k, "")

\* The engine holds the column family of engine handle f in this session's store.
Holds(f) == f \in HandleIds /\ eng[f] = "live"

\* write, lines 407-415: after the guard, db_->Write with the batch, unchecked.
\* The engine applies a batch whose families it all holds as a whole or not at
\* all.  It goes through the records in their order and applies each, and
\* fails at the first record of a family it does not hold: the records before
\* it are applied (the order of the records is not modelled: any of the other
\* records may be before it).
Write(t) == SessionCallBegin(t, "write", 0, "")

\* The store after the engine has applied one record of a batch.
ApplyRecord(store, r) ==
    [store EXCEPT ![r.f][r.k] = IF r.op = "put" THEN Stored(r.v) ELSE Missing]

\* An engine that goes through the records of a batch from the last to the first.
RECURSIVE ApplyBatchReversed(_, _)
ApplyBatchReversed(store, recs) ==
    IF recs = << >> THEN store
    ELSE ApplyBatchReversed(ApplyRecord(store, recs[Len(recs)]),
                            SubSeq(recs, 1, Len(recs) - 1))

\* The store after the engine has applied the records of a batch: it goes
\* through them from the first to the last.
RECURSIVE ApplyBatch(_, _)
ApplyBatch(store, recs) ==
    IF recs = << >> THEN store
    ELSE ApplyBatch(ApplyRecord(store, Head(recs)), Tail(recs))

\* For the records of followed keys the order is modelled: n of them are applied.
WriteCall(t) ==
    /\ pc[t].op = "write" /\ pc[t].ph = "call"
    /\ \E st \in EngineStatus : \E fams \in SUBSET wb_ : \E n \in 0..Len(rep_) :
         /\ IF \A f \in wb_ : Holds(f)
              THEN /\ fams = IF st = "ok" THEN wb_ ELSE {}
                   /\ n = IF st = "ok" THEN Len(rep_) ELSE 0
              ELSE /\ st = "engine_error" /\ \A f \in fams : Holds(f)
                   /\ \A i \in 1..n : rep_[i].f \in fams
         /\ kv' = ApplyBatch(kv, SubSeq(rep_, 1, n))
         /\ Return(t, [Returned("write", st, TRUE, 0, 0, "") EXCEPT !.ap = fams])
    /\ late' = (late \/ ~DbUsable)
    /\ UNCHANGED <<sessVars, handleVars, iterVars, dbFreed, eng, cursorFreed>>

\* Creating one more lease stays within MaxIters, counting the calls under way.
IterRoom(t) ==
    nextI + Cardinality({u \in Threads \ {t} :
                pc[u].op \in {"new_iterator", "new_cf_iterator"}}) <= MaxIters

\* db_->NewIterator(read_options, f): the cursor sees the contents of family
\* f as they are now, and is on no entry until it is positioned.
NewCursor(f) == [snap |-> kv[f], at |-> "fresh"]

\* make_shared<PyRocksDBIterator>(db_->NewIterator(read_options, family), this)
\* with engine cursor c.
NewLeaseOver(h, c) ==
    /\ nextI' = nextI + 1
    /\ lease' = [lease EXCEPT ![nextI] = "alive"]
    /\ it_' = [it_ EXCEPT ![nextI] = nextI]
    /\ itCf' = [itCf EXCEPT ![nextI] = h]
    /\ cur' = [cur EXCEPT ![nextI] = c]

\* The same with a cursor the model does not follow.
NewLease(h) == NewLeaseOver(h, Untracked)

\* new_iterator, lines 417-424; followed says whether the model follows the
\* cursor.
NewIterator(t) == IterRoom(t) /\ SessionCallBegin(t, "new_iterator", 0, "")
NewIteratorCallOver(t, followed) ==
    /\ pc[t].op = "new_iterator" /\ pc[t].ph = "call"
    /\ IF DefaultCfLookup # "ok"
         THEN /\ Return(t, Returned("new_iterator", DefaultCfLookup, FALSE, 0, 0, ""))
              /\ UNCHANGED <<iterVars, late>>
         ELSE /\ NewLeaseOver(cf_handles_[kDefaultColumnFamilyName],
                              IF followed THEN NewCursor(get_default_cf_handle)
                                          ELSE Untracked)
              /\ Return(t, Returned("new_iterator", "ok", TRUE, 0, nextI, ""))
              /\ late' = (late \/ ~DbUsable)
    /\ UNCHANGED <<sessVars, handleVars, engVars>>

NewIteratorCall(t) == NewIteratorCallOver(t, FALSE)
NewIteratorFollowedCall(t) == NewIteratorCallOver(t, TRUE)

(* ------------------------------ write batch ---------------------------- *)
\* The engine handle of the default column family, which a record staged
\* without a handle is for.
DefaultFamily == 1

\* The methods of PyWriteBatch that stage a record without a handle, and with one.
PlainStagingOps == {"batch_put", "batch_delete", "batch_merge"}
CfStagingOps == {"batch_put_cf", "batch_delete_cf", "batch_merge_cf"}
StagingOps == PlainStagingOps \cup CfStagingOps \cup {"batch_clear"}

\* A method of the batch returns; the bindings of PyWriteBatch keep the
\* interpreter lock, a method is one step.
StagedReturn(t, ret) ==
    /\ pc' = [pc EXCEPT ![t] = Idle]
    /\ last' = ret
    /\ Counted
    /\ UNCHANGED threaded

\* Staging that writes the record through to the store.
StagedAppliedAtOnce(f) == {f}

\* The engine families whose contents staging a record for f changes: none,
\* wb_.Put / Delete / Merge append to the batch.
StagedApplied(f) == {}

\* The record put or del appends: wb_.Put(key, value) or wb_.Delete(key), for
\* the default column family f.
Record(op, f, k, v) ==
    [op |-> IF op = "batch_put" THEN "put" ELSE "del",
     f |-> f, k |-> k, v |-> IF op = "batch_put" THEN v ELSE ""]

\* rep_ after wb_.Put / wb_.Delete: the record is appended (a record of a key
\* that is not followed, and a Merge, is not kept in the model).
Staged(op, f, k, v) ==
    IF Followed(f, k) /\ op # "batch_merge"
      THEN Append(rep_, Record(op, f, k, v))
      ELSE rep_

\* The batch has room for one more record of a followed key.
BatchRoom(k) == k \in Keys => Len(rep_) < MaxBatch

\* put / del / merge of PyWriteBatch, lines 134-137, 147-150, 160-163.  k
\* and v are the key and the value the call was given.
BatchStageKey(t, op, k, v) ==
    /\ CanStart(t) /\ BatchRoom(k)
    /\ wb_' = wb_ \cup {DefaultFamily}
    /\ rep_' = Staged(op, DefaultFamily, k, v)
    /\ StagedReturn(t, [Returned(op, "ok", FALSE, 0, 0, "")
                           EXCEPT !.ap = StagedApplied(DefaultFamily), !.k = k, !.v = v])
    /\ UNCHANGED <<sessVars, handleVars, iterVars, engVars, late>>

\* The same for a key the model does not follow.
BatchStage(t, op) == BatchStageKey(t, op, OtherKey, "")

BatchPut(t) == BatchStage(t, "batch_put")
BatchDelete(t) == BatchStage(t, "batch_delete")
BatchMerge(t) == BatchStage(t, "batch_merge")
BatchPutKey(t, k, v) == BatchStageKey(t, "batch_put", k, v)
BatchDeleteKey(t, k) == BatchStageKey(t, "batch_delete", k, "")

\* put_cf / del_cf / merge_cf of PyWriteBatch without the test of the handle.
BatchStageCfUnchecked(t, op, h) ==
    /\ CanStart(t) /\ h \in Held
    /\ wb_' = wb_ \cup {cf_handle_[h]}
    /\ StagedReturn(t, Returned(op, "ok", FALSE, h, 0, ""))
    /\ UNCHANGED <<sessVars, handleVars, iterVars, engVars, late, rep_>>

\* put_cf / del_cf / merge_cf of PyWriteBatch, lines 140-145, 153-158, 166-171:
\* they throw when the handle is not valid.
\* The keys they are given are not followed.
BatchStageCf(t, op, h) ==
    /\ CanStart(t) /\ h \in Held
    /\ IF ~is_valid(h)
         THEN /\ StagedReturn(t, Returned(op, "invalid_cf", FALSE, h, 0, ""))
              /\ UNCHANGED wb_
         ELSE /\ wb_' = wb_ \cup {cf_handle_[h]}
              /\ StagedReturn(t, [Returned(op, "ok", FALSE, h, 0, "")
                                     EXCEPT !.ap = StagedApplied(cf_handle_[h])])
    /\ UNCHANGED <<sessVars, handleVars, iterVars, engVars, late, rep_>>

BatchPutCf(t, h) == BatchStageCf(t, "batch_put_cf", h)
BatchDeleteCf(t, h) == BatchStageCf(t, "batch_delete_cf", h)
BatchMergeCf(t, h) == BatchStageCf(t, "batch_merge_cf", h)

\* clear of PyWriteBatch, lines 173-175.
BatchClear(t) ==
    /\ CanStart(t)
    /\ wb_' = {}
    /\ rep_' = << >>
    /\ StagedReturn(t, Returned("batch_clear", "ok", FALSE, 0, 0, ""))
    /\ UNCHANGED <<sessVars, handleVars, iterVars, engVars, late>>

(* --------------------- calls on a column-family handle ------------------ *)
\* The engine DB db_->X(..., cf_handle.cf_handle_, ...) goes through can be called.
CfUsable(h) == DbUsable

\* The two guards of put_cf, get_cf, del_cf, new_cf_iterator, lines 459-464.
CfCallBegin(t, op, h) ==
    /\ alive /\ CanStart(t) /\ h \in Held
    /\ IF db_ = NULL
         THEN ReturnAtOnce(t, Returned(op, "db_closed", FALSE, h, 0, ""))
         ELSE IF ~is_valid(h)
                THEN ReturnAtOnce(t, Returned(op, "invalid_cf", FALSE, h, 0, ""))
                ELSE Begin(t, InCall(op, "call", h, 0, ""))
    /\ UNCHANGED <<sessVars, handleVars, iterVars, engVars, late>>

\* A put_cf, get_cf, del_cf that goes to the default column family.
CfFamilyDefault(h) == get_default_cf_handle

\* The family put_cf, get_cf, del_cf pass to the engine: cf_handle.cf_handle_.
CfFamily(h) == cf_handle_[h]

\* put_cf / get_cf / del_cf, lines 458-508: db_->Put/Get/Delete on the family.
\* k and v are the key and the value the call was given.
CfCallKey(t, op, k, v) ==
    /\ pc[t].op = op /\ pc[t].ph = "call"
    /\ \E st \in EngineStatus :
         LET f == CfFamily(pc[t].h)
             r == KeyCallResult(op, st, f, k)
         IN /\ Return(t, [Returned(op, r.res, TRUE, pc[t].h, 0, "")
                             EXCEPT !.ap = Changed(op, st, f),
                                    !.k = k, !.v = v, !.val = r.val])
            /\ kv' = KvAfter(op, st, f, k, v)
    /\ late' = (late \/ ~CfUsable(pc[t].h))
    /\ UNCHANGED <<sessVars, handleVars, iterVars, dbFreed, eng, cursorFreed>>

\* The same for a key the model does not follow.
CfCall(t, op) == CfCallKey(t, op, OtherKey, "")

PutCf(t, h) == CfCallBegin(t, "put_cf", h)
PutCfCall(t) == CfCall(t, "put_cf")
GetCf(t, h) == CfCallBegin(t, "get_cf", h)
GetCfCall(t) == CfCall(t, "get_cf")
DelCf(t, h) == CfCallBegin(t, "del_cf", h)
DelCfCall(t) == CfCall(t, "del_cf")
PutCfKeyCall(t, k, v) == CfCallKey(t, "put_cf", k, v)
GetCfKeyCall(t, k) == CfCallKey(t, "get_cf", k, "")
DelCfKeyCall(t, k) == CfCallKey(t, "del_cf", k, "")

\* new_cf_iterator, lines 588-598.
NewCfIterator(t, h) == IterRoom(t) /\ CfCallBegin(t, "new_cf_iterator", h)
NewCfIteratorCall(t) ==
    /\ pc[t].op = "new_cf_iterator" /\ pc[t].ph = "call"
    /\ NewLease(pc[t].h)
    /\ Return(t, Returned("new_cf_iterator", "ok", TRUE, pc[t].h, nextI, ""))
    /\ late' = (late \/ ~CfUsable(pc[t].h))
    /\ UNCHANGED <<sessVars, handleVars, engVars>>

(* ------------------------- create_column_family ------------------------- *)
\* Constructing one more handle object stays within MaxHandles.
HandleRoom(t) ==
    nextH + Cardinality({u \in Threads \ {t} :
                pc[u].op = "create_column_family"}) <= MaxHandles

\* The names of the column families the engine holds in this session's store:
\* those behind the handle objects, and those CreateColumnFamily has just made
\* for a call that has not yet constructed its handle object.
EngineFamilies ==
    {name_[h] : h \in {g \in HandleIds : eng[g] = "live"}}
        \cup {pc[u].nm : u \in {v \in Threads : pc[v].op = "create_column_family"
                                                  /\ pc[v].ph = "register"}}

\* create_column_family without the look-up of the name in cf_handles_.
CreateColumnFamilyUnchecked(t, nm) ==
    /\ alive /\ CanStart(t) /\ HandleRoom(t)
    /\ IF db_ = NULL
         THEN ReturnAtOnce(t, Returned("create_column_family", "db_closed", FALSE, 0, 0, nm))
         ELSE Begin(t, InCall("create_column_family", "call", 0, 0, nm))
    /\ UNCHANGED <<sessVars, handleVars, iterVars, engVars, late>>

\* create_column_family, lines 534-539: the guard, then cf_handles_.count(name).
CreateColumnFamily(t, nm) ==
    /\ alive /\ CanStart(t) /\ HandleRoom(t)
    /\ IF db_ = NULL
         THEN ReturnAtOnce(t, Returned("create_column_family", "db_closed", FALSE, 0, 0, nm))
         ELSE IF cf_handles_[nm] # NULL
                THEN ReturnAtOnce(t, Returned("create_column_family", "already_exists",
                                        FALSE, 0, 0, nm))
                ELSE Begin(t, InCall("create_column_family", "call", 0, 0, nm))
    /\ UNCHANGED <<sessVars, handleVars, iterVars, engVars, late>>

\* create_column_family storing the name in cf_handles_ before it looks at the
\* engine's status.
CreateColumnFamilyCallRegistersFirst(t) ==
    /\ pc[t].op = "create_column_family" /\ pc[t].ph = "call"
    /\ late' = (late \/ ~DbUsable)
    /\ \E st \in EngineStatus :
         /\ pc[t].nm \in EngineFamilies => st = "engine_error"
         /\ IF st = "ok"
              THEN /\ pc' = [pc EXCEPT ![t].ph = "register"]
                   /\ UNCHANGED <<last, threaded, started, wb_, rep_, cf_handles_>>
              ELSE /\ cf_handles_' = [cf_handles_ EXCEPT ![pc[t].nm] = nextH]
                   /\ Return(t, Returned("create_column_family", "engine_error", TRUE,
                                         0, 0, pc[t].nm))
    /\ UNCHANGED <<db_, is_closed_, alive, handleVars, iterVars, engVars>>

\* lines 546-550: db_->CreateColumnFamily.  The engine refuses a name it holds.
CreateColumnFamilyCall(t) ==
    /\ pc[t].op = "create_column_family" /\ pc[t].ph = "call"
    /\ late' = (late \/ ~DbUsable)
    /\ \E st \in EngineStatus :
         /\ pc[t].nm \in EngineFamilies => st = "engine_error"
         /\ IF st = "ok"
              THEN /\ pc' = [pc EXCEPT ![t].ph = "register"]
                   /\ UNCHANGED <<last, threaded, started, wb_, rep_>>
              ELSE Return(t, Returned("create_column_family", "engine_error", TRUE,
                                      0, 0, pc[t].nm))
    /\ UNCHANGED <<sessVars, handleVars, iterVars, engVars>>

\* create_column_family forgetting to store the new handle object.
CreateRegisteredNot(nm, h) == cf_handles_

\* line 552: cf_handles_[name] = new_handle.
CreateRegistered(nm, h) == [cf_handles_ EXCEPT ![nm] = h]

\* lines 551-553: the handle object is constructed over the engine handle,
\* stored under the name and returned.
CreateRegister(t) ==
    /\ pc[t].op = "create_column_family" /\ pc[t].ph = "register"
    /\ nextH' = nextH + 1
    /\ name_' = [name_ EXCEPT ![nextH] = pc[t].nm]
    /\ cf_handle_' = [cf_handle_ EXCEPT ![nextH] = nextH]
    /\ eng' = [eng EXCEPT ![nextH] = "live"]
    /\ cf_handles_' = CreateRegistered(pc[t].nm, nextH)
    /\ Return(t, Returned("create_column_family", "ok", TRUE, nextH, 0, pc[t].nm))
    /\ UNCHANGED <<db_, is_closed_, alive, iterVars, dbFreed, cursorFreed, kv, late>>

(* -------------------------- drop_column_family -------------------------- *)
\* drop_column_family without the guard on the default column family's name.
DropColumnFamilyAnyName(t, h) ==
    /\ alive /\ CanStart(t) /\ h \in Held
    /\ IF db_ = NULL
         THEN ReturnAtOnce(t, Returned("drop_column_family", "db_closed", FALSE, h, 0, ""))
         ELSE IF ~is_valid(h)
                THEN ReturnAtOnce(t, Returned("drop_column_family", "invalid_cf", FALSE, h, 0, ""))
                ELSE Begin(t, InCall("drop_column_family", "drop", h, 0, ""))
    /\ UNCHANGED <<sessVars, handleVars, iterVars, engVars, late>>

\* drop_column_family, lines 557-569: the three guards; raw_handle is read.
DropColumnFamily(t, h) ==
    /\ alive /\ CanStart(t) /\ h \in Held
    /\ IF db_ = NULL
         THEN ReturnAtOnce(t, Returned("drop_column_family", "db_closed", FALSE, h, 0, ""))
         ELSE IF ~is_valid(h)
                THEN ReturnAtOnce(t, Returned("drop_column_family", "invalid_cf", FALSE, h, 0, ""))
                ELSE IF name_[h] = kDefaultColumnFamilyName
                       THEN ReturnAtOnce(t, Returned("drop_column_family", "cannot_drop_default",
                                               FALSE, h, 0, ""))
                       ELSE Begin(t, InCall("drop_column_family", "drop", h, 0, ""))
    /\ UNCHANGED <<sessVars, handleVars, iterVars, engVars, late>>

\* drop_column_family taking the name out of cf_handles_ and invalidating the
\* handle object before the engine has confirmed the drop.
DropEngineUnregistering(t) ==
    /\ pc[t].op = "drop_column_family" /\ pc[t].ph = "drop"
    /\ late' = (late \/ ~DbUsable)
    /\ cf_handles_' = [cf_handles_ EXCEPT ![name_[pc[t].h]] = NULL]
    /\ cf_handle_' = [cf_handle_ EXCEPT ![pc[t].h] = NULL]
    /\ \E st \in EngineStatus :
         /\ eng[pc[t].h] # "live" => st = "engine_error"
         /\ IF st = "ok"
              THEN /\ eng' = [eng EXCEPT ![pc[t].h] = "dropped"]
                   /\ pc' = [pc EXCEPT ![t].ph = "destroy"]
                   /\ UNCHANGED <<last, threaded, started, wb_, rep_>>
              ELSE /\ Return(t, Returned("drop_column_family", "engine_error", TRUE,
                                         pc[t].h, 0, ""))
                   /\ UNCHANGED eng
    /\ UNCHANGED <<db_, is_closed_, alive, nextH, name_, iterVars, dbFreed, cursorFreed, kv>>

\* lines 571-574: db_->DropColumnFamily(raw_handle).  The engine refuses a
\* family it has already dropped.
DropEngine(t) ==
    /\ pc[t].op = "drop_column_family" /\ pc[t].ph = "drop"
    /\ late' = (late \/ ~DbUsable)
    /\ \E st \in EngineStatus :
         /\ eng[pc[t].h] # "live" => st = "engine_error"
         /\ IF st = "ok"
              THEN /\ eng' = [eng EXCEPT ![pc[t].h] = "dropped"]
                   /\ pc' = [pc EXCEPT ![t].ph = "destroy"]
                   /\ UNCHANGED <<last, threaded, started, wb_, rep_>>
              ELSE /\ Return(t, Returned("drop_column_family", "engine_error", TRUE,
                                         pc[t].h, 0, ""))
                   /\ UNCHANGED eng
    /\ UNCHANGED <<sessVars, handleVars, iterVars, dbFreed, cursorFreed, kv>>

\* A drop_column_family that leaves the handle object as it was.
DropInvalidatedNot(h) == cf_handle_

\* line 584: cf_handle.cf_handle_ = nullptr, the handle object is invalid from
\* now on.
DropInvalidated(h) == [cf_handle_ EXCEPT ![h] = NULL]

\* lines 577-584: db_->DestroyColumnFamilyHandle(raw_handle); on success the
\* name is erased from cf_handles_ and the handle object is invalidated.
DropDestroy(t) ==
    /\ pc[t].op = "drop_column_family" /\ pc[t].ph = "destroy"
    /\ late' = (late \/ ~DbUsable)
    /\ \E st \in EngineStatus :
         IF st = "ok"
           THEN /\ eng' = [eng EXCEPT ![pc[t].h] = "destroyed"]
                /\ cf_handles_' = [cf_handles_ EXCEPT ![name_[pc[t].h]] = NULL]
                /\ cf_handle_' = DropInvalidated(pc[t].h)
                /\ Return(t, Returned("drop_column_family", "ok", TRUE, pc[t].h, 0, ""))
           ELSE /\ Return(t, Returned("drop_column_family", "engine_error", TRUE,
                                      pc[t].h, 0, ""))
                /\ UNCHANGED <<eng, cf_handles_, cf_handle_>>
    /\ UNCHANGED <<db_, is_closed_, alive, nextH, name_, iterVars, dbFreed, cursorFreed, kv>>

(* --------------------------- registry queries --------------------------- *)
\* get_column_family, lines 600-606: the handle object stored under the name,
\* NULL (None) if there is none.  It looks at neither db_ nor is_closed_.
get_column_family(cf_name) == cf_handles_[cf_name]

\* get_default_cf, lines 608-610.
get_default_cf == get_column_family(kDefaultColumnFamilyName)

\* The bound method get_column_family: one step, no guard, no engine call.
GetColumnFamily(t, cf_name) ==
    /\ alive /\ CanStart(t)
    /\ ReturnAtOnce(t, Returned("get_column_family", "ok", FALSE,
                                get_column_family(cf_name), 0, cf_name))
    /\ UNCHANGED <<sessVars, handleVars, iterVars, engVars, late>>

\* list_column_families, lines 510-531: unless the session is closed, the names
\* rocksdb::DB::ListColumnFamilies reads from the store at path_ (the store
\* exists, the session has created it); cf_handles_ is not looked at.
ListColumnFamilies(t) ==
    /\ alive /\ CanStart(t)
    /\ IF db_ = NULL /\ is_closed_
         THEN ReturnAtOnce(t, Returned("list_column_families", "db_closed", FALSE, 0, 0, ""))
         ELSE \E st \in EngineStatus :
                ReturnAtOnce(t, [Returned("list_column_families", st, TRUE, 0, 0, "")
                                    EXCEPT !.out = IF st = "ok" THEN EngineFamilies ELSE {}])
    /\ UNCHANGED <<sessVars, handleVars, iterVars, engVars, late>>

\* The bound property default_cf (get_default_cf): one step, no guard.
GetDefaultCf(t) ==
    /\ alive /\ CanStart(t)
    /\ ReturnAtOnce(t, Returned("default_cf", "ok", FALSE, get_default_cf, 0,
                                kDefaultColumnFamilyName))
    /\ UNCHANGED <<sessVars, handleVars, iterVars, engVars, late>>

\* get_options, lines 426-428: return opened_options_; one step, no guard.
GetOptions(t) ==
    /\ alive /\ CanStart(t)
    /\ ReturnAtOnce(t, Returned("get_options", "ok", FALSE, 0, 0, ""))
    /\ UNCHANGED <<sessVars, handleVars, iterVars, engVars, late>>

(* ------------------------------ constructor ---------------------------- *)
\* What a caller passes as options: nothing (py_options == nullptr), or a
\* PyOptions object whose create_if_missing is true or false.
OpenOptions == {"none", "create", "no_create"}

\* lines 275-284: actual_options.create_if_missing.
create_if_missing(opt) == opt \in {"none", "create"}

\* lines 294-304: the file CURRENT exists at path_, i.e. the store holds a
\* column family (a store always holds the default one).
db_likely_exists == EngineFamilies # {}

\* A constructor that never looks at create_if_missing.
OpenPlanAlwaysCreates(exists, create) == IF exists THEN "list" ELSE "create"

\* lines 306-329: the branch the constructor takes.
OpenPlan(exists, create) ==
    IF ~exists /\ create THEN "create"
    ELSE IF exists THEN "list"
    ELSE "throw"

\* cf_descriptors, lines 309-310 and 321-323: the default column family for a
\* new store, the names DB::ListColumnFamilies reports for an existing one.
OpenDescriptors(plan) ==
    IF plan = "create" THEN {kDefaultColumnFamilyName} ELSE EngineFamilies

\* The order in which the engine reports column families.
CFOrder == <<kDefaultColumnFamilyName, "cf1">>

\* The handle object constructed for descriptor n: the objects are constructed
\* in the order of cf_descriptors.
OpenHandle(D, n) ==
    Cardinality({i \in DOMAIN CFOrder :
                   CFOrder[i] \in D /\ \E j \in DOMAIN CFOrder : j >= i /\ CFOrder[j] = n})

\* The engine handle under which the store held the column family of name n
\* up to now.
StoreFamily(n) == CHOOSE g \in HandleIds : eng[g] = "live" /\ name_[g] = n

\* A constructor that stores no handle object.
OpenRegisteredNone(D) == [n \in CFNames |-> NULL]

\* A constructor that stores the handle object of the default family only.
OpenRegisteredDefaultOnly(D) ==
    [n \in CFNames |-> IF n = kDefaultColumnFamilyName /\ n \in D
                         THEN OpenHandle(D, n) ELSE NULL]

\* cf_handles_ after the loop of lines 339-341.
OpenRegistered(D) == [n \in CFNames |-> IF n \in D THEN OpenHandle(D, n) ELSE NULL]

\* PyRocksDB::PyRocksDB, lines 271-342, for a caller that has no session: the
\* constructor throws (no object comes to exist), or DB::Open returns the DB
\* and one engine handle per descriptor, each wrapped in a new handle object.
\* The only handle objects the caller can hold afterwards are the new ones.
Construct(t, opt) ==
    /\ ~alive /\ CanStart(t)
    /\ LET plan == OpenPlan(db_likely_exists, create_if_missing(opt))
           D == OpenDescriptors(plan)
           Threw(res, e) ==
               /\ ReturnAtOnce(t, Returned("open", res, e, 0, 0, opt))
               /\ UNCHANGED <<sessVars, handleVars, engVars>>
       IN \/ /\ plan = "throw"
             /\ Threw("does_not_exist", FALSE)
          \/ /\ plan = "list"
             /\ Threw("list_failed", TRUE)
          \/ /\ plan # "throw"
             /\ Threw("open_failed", TRUE)
          \/ /\ plan # "throw"
             /\ db_' = DBPTR
             /\ dbFreed' = 0
             /\ is_closed_' = FALSE
             /\ alive' = TRUE
             /\ cf_handles_' = OpenRegistered(D)
             /\ nextH' = Cardinality(D) + 1
             /\ name_' = [h \in HandleObjs |->
                            IF h = OtherHandle THEN name_[h]
                            ELSE IF \E n \in D : OpenHandle(D, n) = h
                                   THEN CHOOSE n \in D : OpenHandle(D, n) = h
                                   ELSE ""]
             /\ cf_handle_' = [h \in HandleObjs |->
                            IF h = OtherHandle THEN cf_handle_[h]
                            ELSE IF h <= Cardinality(D) THEN h ELSE NULL]
             /\ eng' = [h \in HandleObjs |->
                            IF h = OtherHandle THEN eng[h]
                            ELSE IF h <= Cardinality(D) THEN "live" ELSE "none"]
             /\ kv' = [h \in HandleIds |->
                            IF \E n \in D \cap EngineFamilies : OpenHandle(D, n) = h
                              THEN kv[StoreFamily(CHOOSE n \in D : OpenHandle(D, n) = h)]
                              ELSE [k \in Keys |-> Missing]]
             /\ UNCHANGED cursorFreed
             /\ ReturnAtOnce(t, [Returned("open", "ok", TRUE, 0, 0, opt) EXCEPT !.out = D])
    /\ UNCHANGED <<iterVars, late>>

\* No session has been constructed and no store exists at the path.
NoStore ==
    /\ db_ = NULL
    /\ is_closed_ = FALSE
    /\ cf_handles_ = [n \in CFNames |-> NULL]
    /\ alive = FALSE
    /\ nextH = 1
    /\ name_ = [h \in HandleObjs |-> IF h = OtherHandle THEN "cf1" ELSE ""]
    /\ cf_handle_ = [h \in HandleObjs |-> IF h = OtherHandle THEN h ELSE NULL]
    /\ nextI = 1
    /\ lease = [i \in IterIds |-> "none"]
    /\ it_ = [i \in IterIds |-> NULL]
    /\ itCf = [i \in IterIds |-> 0]
    /\ cur = [i \in IterIds |-> Untracked]
    /\ dbFreed = 0
    /\ eng = [h \in HandleObjs |-> IF h = OtherHandle THEN "live" ELSE "none"]
    /\ wb_ = {}
    /\ rep_ = << >>
    /\ kv = [h \in HandleIds |-> [k \in Keys |-> Missing]]
    /\ cursorFreed = [i \in IterIds |-> 0]
    /\ late = FALSE
    /\ last = NoCall
    /\ pc = [t \in Threads |-> Idle]

InitNoStore == NoStore /\ threaded = FALSE /\ started = 0

(* ------------------------------ iterators ------------------------------- *)
\* An iterator method that does not look at the session's closed flag.
check_parent_db_is_open_skipped == "ok"

\* check_parent_db_is_open, lines 444-448: what it throws, or "ok".
check_parent_db_is_open == IF is_closed_ THEN "parent_closed" ELSE "ok"

\* Every method of PyRocksDBIterator starts with check_parent_db_is_open().
IterMethod(t, i, m) ==
    /\ CanStart(t) /\ lease[i] = "alive"
    /\ \A u \in Threads : pc[u].i # i
    /\ IF check_parent_db_is_open # "ok"
         THEN ReturnAtOnce(t, Returned(m, check_parent_db_is_open, FALSE, 0, i, ""))
         ELSE Begin(t, InCall(m, "cursor", 0, i, ""))
    /\ UNCHANGED <<sessVars, handleVars, iterVars, engVars, late>>

\* The cursor behind it_ can be called: it and its DB have not been deleted.
CursorUsable(i) == it_[i] # NULL /\ cursorFreed[i] = 0 /\ dbFreed = 0

\* it_->Valid() of a followed cursor: it is on an entry.
CursorValid(c) == c.at \in Keys

\* The keys of the entries a followed cursor sees.
Entries(c) == {k \in Keys : c.snap[k].found}

KeyRank(k) == CHOOSE n \in DOMAIN KeyOrder : KeyOrder[n] = k

\* The first and the last of the keys S in key order; past the end if S is empty.
FirstOf(S) == IF S = {} THEN "end" ELSE CHOOSE k \in S : \A j \in S : KeyRank(k) <= KeyRank(j)
LastOf(S) == IF S = {} THEN "end" ELSE CHOOSE k \in S : \A j \in S : KeyRank(j) <= KeyRank(k)

\* Where a followed cursor c can be after method m (seek with key k).  Next()
\* and Prev() require Valid(): on a cursor that is on no entry they may leave
\* it anywhere.
Moved(m, c, k) ==
    IF c.at = "untracked" THEN {c.at}
    ELSE IF m = "seek_to_first" THEN {FirstOf(Entries(c))}
    ELSE IF m = "seek_to_last" THEN {LastOf(Entries(c))}
    ELSE IF m = "seek" THEN {FirstOf({e \in Entries(c) : KeyRank(e) >= KeyRank(k)})}
    ELSE IF m \in {"next", "prev"} /\ ~CursorValid(c) THEN {"fresh", "end"} \cup Entries(c)
    ELSE IF m = "next" THEN {FirstOf({e \in Entries(c) : KeyRank(e) > KeyRank(c.at)})}
    ELSE IF m = "prev" THEN {LastOf({e \in Entries(c) : KeyRank(e) < KeyRank(c.at)})}
    ELSE {c.at}

\* key() and value() without the test of it_->Valid().
IterEntryUnchecked(m, c) ==
    IF m = "key" THEN PyBytes(c.at)
    ELSE PyBytes(IF CursorValid(c) THEN c.snap[c.at].value ELSE "")

\* key() and value(), lines 231-245: the bytes of the entry the cursor is on,
\* None if it is on none.
IterEntry(m, c) ==
    IF CursorValid(c)
      THEN IF m = "key" THEN PyBytes(c.at) ELSE PyBytes(c.snap[c.at].value)
      ELSE PyNone

\* What method m of a lease returns for cursor c.
IterResult(m, c) ==
    IF c.at = "untracked" THEN PyNone
    ELSE IF m \in {"key", "value"} THEN IterEntry(m, c)
    ELSE IF m = "valid" THEN PyBool(CursorValid(c))
    ELSE PyNone

\* The keys a seek on cursor c is given.
SeekKeys(m, c) == IF m = "seek" /\ c.at # "untracked" THEN Keys ELSE {OtherKey}

\* lines 201-253: it_->Valid() / SeekToFirst() / ... / status(); check_status
\* throws when the status is not ok.
IterMethodCall(t) ==
    /\ pc[t].op \in IterMethods /\ pc[t].ph = "cursor"
    /\ \E st \in EngineStatus : \E k \in SeekKeys(pc[t].op, cur[pc[t].i]) :
         \E p \in Moved(pc[t].op, cur[pc[t].i], k) :
           /\ pc[t].op # "check_status" => st = "ok"
           /\ cur' = [cur EXCEPT ![pc[t].i].at = p]
           /\ Return(t, [Returned(pc[t].op, st, TRUE, 0, pc[t].i, "")
                            EXCEPT !.k = k, !.val = IterResult(pc[t].op, cur[pc[t].i])])
    /\ late' = (late \/ ~CursorUsable(pc[t].i))
    /\ UNCHANGED <<sessVars, handleVars, nextI, lease, it_, itCf, engVars>>

\* ~PyRocksDBIterator, lines 191-196, when the last reference to the lease
\* goes: if (it_ != nullptr) { delete it_; it_ = nullptr; }
Dispose(t, i) ==
    /\ CanStart(t) /\ lease[i] = "alive"
    /\ \A u \in Threads : pc[u].i # i
    /\ lease' = [lease EXCEPT ![i] = "destroyed"]
    /\ it_' = [it_ EXCEPT ![i] = NULL]
    /\ cur' = [cur EXCEPT ![i] = Untracked]
    /\ cursorFreed' = [cursorFreed EXCEPT ![i] =
                         IF it_[i] # NULL /\ @ < 2 THEN @ + 1 ELSE @]
    /\ ReturnAtOnce(t, Returned("dispose", "ok", it_[i] # NULL, 0, i, ""))
    /\ UNCHANGED <<sessVars, handleVars, nextI, itCf, dbFreed, eng, kv, late>>

(* --------------------------- specifications ---------------------------- *)
Step(t) ==
    \/ Close(t) \/ Dtor(t) \/ CloseInvalidate(t) \/ CloseDelete(t) \/ CloseNull(t)
    \/ Put(t) \/ PutCall(t) \/ Get(t) \/ GetCall(t) \/ Del(t) \/ DelCall(t)
    \/ Write(t) \/ WriteCall(t)
    \/ NewIterator(t) \/ NewIteratorCall(t)
    \/ \E h \in HandleIds : PutCf(t, h) \/ GetCf(t, h) \/ DelCf(t, h)
                               \/ NewCfIterator(t, h) \/ DropColumnFamily(t, h)
    \/ PutCfCall(t) \/ GetCfCall(t) \/ DelCfCall(t) \/ NewCfIteratorCall(t)
    \/ \E nm \in CFNames : CreateColumnFamily(t, nm)
    \/ CreateColumnFamilyCall(t) \/ CreateRegister(t)
    \/ DropEngine(t) \/ DropDestroy(t)
    \/ \E i \in IterIds : Dispose(t, i) \/ \E m \in IterMethods : IterMethod(t, i, m)
    \/ IterMethodCall(t)

Next == \E t \in Threads : Step(t)

\* One call at a time: a call starts only while no other call is under way.
Spec == Init /\ [][Next]_vars

\* A caller that works with the column families of the session, one call at a
\* time, and also holds a handle object of another session.
StepRegistry(t) ==
    \/ Close(t) \/ CloseInvalidate(t) \/ CloseDelete(t) \/ CloseNull(t)
    \/ \E h \in HandleObjs : PutCf(t, h) \/ GetCf(t, h) \/ DelCf(t, h)
                                \/ NewCfIterator(t, h) \/ DropColumnFamily(t, h)
    \/ PutCfCall(t) \/ GetCfCall(t) \/ DelCfCall(t) \/ NewCfIteratorCall(t)
    \/ \E nm \in CFNames : CreateColumnFamily(t, nm) \/ GetColumnFamily(t, nm)
    \/ CreateColumnFamilyCall(t) \/ CreateRegister(t)
    \/ DropEngine(t) \/ DropDestroy(t)
    \/ ListColumnFamilies(t) \/ GetDefaultCf(t) \/ GetOptions(t)

NextRegistry == \E t \in Threads : StepRegistry(t)

\* A caller that stages records in a write batch and commits it, one call at
\* a time, while it creates and drops column families and closes the session.
StepBatch(t) ==
    \/ Close(t) \/ CloseInvalidate(t) \/ CloseDelete(t) \/ CloseNull(t)
    \/ BatchPut(t) \/ BatchDelete(t) \/ BatchMerge(t) \/ BatchClear(t)
    \/ \E h \in HandleIds : BatchPutCf(t, h) \/ BatchDeleteCf(t, h) \/ BatchMergeCf(t, h)
                               \/ DropColumnFamily(t, h)
    \/ Write(t) \/ WriteCall(t)
    \/ \E nm \in CFNames : CreateColumnFamily(t, nm)
    \/ CreateColumnFamilyCall(t) \/ CreateRegister(t)
    \/ DropEngine(t) \/ DropDestroy(t)

NextBatch == \E t \in Threads : StepBatch(t)

SpecBatch == Init /\ [][NextBatch]_vars

SpecRegistry == Init /\ [][NextRegistry]_vars

\* A caller that opens the store, works with its column families, closes and
\* lets go of the session, and opens the store again, one call at a time.
StepOpen(t) ==
    \/ \E opt \in OpenOptions : Construct(t, opt)
    \/ Close(t) \/ Dtor(t) \/ CloseInvalidate(t) \/ CloseDelete(t) \/ CloseNull(t)
    \/ \E h \in HandleIds : DropColumnFamily(t, h)
    \/ \E nm \in CFNames : CreateColumnFamily(t, nm) \/ GetColumnFamily(t, nm)
    \/ CreateColumnFamilyCall(t) \/ CreateRegister(t)
    \/ DropEngine(t) \/ DropDestroy(t)

NextOpen == \E t \in Threads : StepOpen(t)

SpecOpen == InitNoStore /\ [][NextOpen]_vars

\* A caller that writes, reads and deletes keys of Keys in the default column
\* family and in the families it creates, one call at a time.
StepData(t) ==
    \/ Close(t) \/ CloseInvalidate(t) \/ CloseDelete(t) \/ CloseNull(t)
    \/ Put(t) \/ Get(t) \/ Del(t)
    \/ \E h \in HandleIds : PutCf(t, h) \/ GetCf(t, h) \/ DelCf(t, h)
    \/ \E k \in Keys : \/ GetKeyCall(t, k) \/ DelKeyCall(t, k)
                       \/ GetCfKeyCall(t, k) \/ DelCfKeyCall(t, k)
                       \/ \E v \in Values : PutKeyCall(t, k, v) \/ PutCfKeyCall(t, k, v)
    \/ \E nm \in CFNames : CreateColumnFamily(t, nm)
    \/ CreateColumnFamilyCall(t) \/ CreateRegister(t)

NextData == \E t \in Threads : StepData(t)

SpecData == Init /\ [][NextData]_vars

\* A caller that stages puts and deletes of keys of Keys of the default column
\* family in a write batch, commits the batch and reads the keys back, one call
\* at a time.
StepWrite(t) ==
    \/ Close(t) \/ CloseInvalidate(t) \/ CloseDelete(t) \/ CloseNull(t)
    \/ BatchClear(t)
    \/ \E k \in Keys :
         \/ BatchDeleteKey(t, k) \/ GetKeyCall(t, k)
         \/ \E v \in Values : BatchPutKey(t, k, v)
    \/ Write(t) \/ WriteCall(t) \/ Get(t)

NextWrite == \E t \in Threads : StepWrite(t)

SpecWrite == Init /\ [][NextWrite]_vars

\* A caller that writes keys of Keys in the default column family, with an
\* empty or a non-empty value, and walks over them with iterators, one call at
\* a time.
StepIter(t) ==
    \/ Close(t) \/ CloseInvalidate(t) \/ CloseDelete(t) \/ CloseNull(t)
    \/ Put(t)
    \/ \E k \in Keys : \E v \in {"", "v1"} : PutKeyCall(t, k, v)
    \/ NewIterator(t) \/ NewIteratorFollowedCall(t)
    \/ \E i \in IterIds : Dispose(t, i) \/ \E m \in IterMethods : IterMethod(t, i, m)
    \/ IterMethodCall(t)

NextIter == \E t \in Threads : StepIter(t)

SpecIter == Init /\ [][NextIter]_vars

\* The interpreter lock is released around every call: the calls of two
\* threads interleave step by step.
SpecConc == InitConc /\ [][Next]_vars

(* -------------------------------- claims ------------------------------- *)
\* A call of op starts in this step (and may return in it), no call under way.
CallStarts(op) ==
    /\ Quiescent
    /\ \/ \E t \in Threads : pc'[t].op = op
       \/ Quiescent' /\ last'.op = op

\* The same, for a call that is given handle object h.
CallStartsOn(op, h) ==
    /\ Quiescent
    /\ \/ \E t \in Threads : pc'[t].op = op /\ pc'[t].h = h
       \/ Quiescent' /\ last'.op = op /\ last'.h = h

\* The engine cursor of lease i exists and has not been deleted.
CursorLive(i) == lease[i] # "none" /\ cursorFreed[i] = 0

\* C1: every engine cursor is deleted at most once, whatever the order of
\* close() and of the disposal of its lease.
C1_CursorFreedAtMostOnce == \A i \in IterIds : cursorFreed[i] <= 1

\* C1 witness: a lease is disposed after its session was closed, and its
\* cursor has been deleted once.
C1_DisposedAfterClose ==
    \E i \in IterIds :
        /\ last.op = "dispose" /\ last.i = i
        /\ lease[i] = "destroyed" /\ cursorFreed[i] = 1
        /\ db_ = NULL /\ dbFreed = 1

\* C2: once close() has completed, an iterator method that returns has thrown
\* the database-closed error without touching the cursor.
C2_IteratorFailsAfterClose ==
    (last.op \in IterMethods /\ db_ = NULL)
        => (last.res = "parent_closed" /\ ~last.eng /\ ~late)

\* C2 witness: a lease created while the session was open is still alive, the
\* session is closed, and a method of the lease has thrown the closed error.
C2_MethodThrewAfterClose ==
    /\ last.op = "check_status" /\ last.res = "parent_closed"
    /\ lease[last.i] = "alive" /\ db_ = NULL /\ dbFreed = 1

\* The session methods that start with the guard on db_.
GuardedOps == {"get", "put", "del", "write", "new_iterator", "put_cf", "get_cf",
               "del_cf", "create_column_family", "drop_column_family",
               "new_cf_iterator"}

\* C3: on a session on which close() has completed, get, put, delete, write,
\* new_iterator, put_cf, get_cf, delete_cf, create_column_family,
\* drop_column_family and new_cf_iterator return at once with the closed-session
\* error, make no engine call, and leave session, handles, leases and engine as
\* they were.
C3_ClosedSessionRejects ==
    [][ \A op \in GuardedOps :
          (db_ = NULL /\ CallStarts(op))
            => /\ Quiescent'
               /\ last'.res = "db_closed" /\ ~last'.eng
               /\ UNCHANGED <<sessVars, handleVars, iterVars, engVars, late>> ]_vars

\* C3 witness: drop_column_family has thrown the closed-session error on a
\* closed session.
C3_DropThrewClosed ==
    /\ last.op = "drop_column_family" /\ last.res = "db_closed"
    /\ db_ = NULL /\ is_closed_ /\ dbFreed = 1

\* C4: no cursor is live once the engine handle of its session is released.
C4_NoCursorOutlivesEngine ==
    \A i \in IterIds : CursorLive(i) => dbFreed = 0

\* C5: whatever the interleaving of concurrent close() calls, the engine
\* handle is released at most once, and every close() returns without error.
C5_SingleTeardown ==
    /\ dbFreed <= 1
    /\ last.op = "close" => last.res = "ok"

\* C6: no engine call goes through the engine handle, or a cursor of it, after
\* close() has released it.
C6_NoCallAfterRelease == ~late

\* C7: close() on a closed session, from the method or from the destructor,
\* returns at once without error, makes no engine call and leaves the session
\* closed and everything else as it was.
C7_CloseIdempotent ==
    [][ \A op \in {"close", "dtor"} :
          (db_ = NULL /\ CallStarts(op))
            => /\ Quiescent'
               /\ last'.res = "ok" /\ ~last'.eng
               /\ db_' = NULL /\ is_closed_'
               /\ UNCHANGED <<db_, is_closed_, cf_handles_, handleVars, iterVars,
                              engVars, late>> ]_vars

\* C7 witness: a second close() has returned on a closed session.
C7_SecondCloseReturned ==
    /\ last.op = "close" /\ last.res = "ok" /\ ~last.eng
    /\ db_ = NULL /\ is_closed_ /\ dbFreed = 1

\* The column family behind handle object h has been dropped in the engine.
Dropped(h) == eng[h] \in {"dropped", "destroyed"}

\* C8: between calls, a handle object is valid exactly if its column family
\* has not been dropped and the session is open.
C8_ValidIffNotDroppedAndOpen ==
    Quiescent => \A h \in Allocated : is_valid(h) <=> (~Dropped(h) /\ ~is_closed_)

\* C9: close() invalidates every handle object before it releases the engine
\* handle, and from then on every handle object the session ever handed out
\* is invalid.
C9_CloseInvalidatesAll ==
    (is_closed_ \/ dbFreed > 0 \/ db_ = NULL)
        => \A h \in Allocated : ~is_valid(h)

\* C9 witness: close() has returned on a session that had created a column
\* family and not dropped it.
C9_ClosedWithHandles ==
    /\ last.op = "close" /\ last.eng
    /\ \E h \in Allocated : name_[h] # kDefaultColumnFamilyName /\ eng[h] = "live"
    /\ \A h \in Allocated : ~is_valid(h)

\* The session methods that take a handle object.
HandleOps == {"put_cf", "get_cf", "del_cf", "new_cf_iterator", "drop_column_family"}

\* C10: on an open session, put_cf, get_cf, delete_cf, new_cf_iterator and
\* drop_column_family given a handle whose column family has been dropped
\* return at once with the invalid-column-family error, make no engine call
\* and leave the registry, the handles and the engine as they were.
C10_DroppedHandleRejected ==
    [][ \A op \in HandleOps : \A h \in Allocated :
          (db_ # NULL /\ ~is_closed_ /\ Dropped(h) /\ CallStartsOn(op, h))
            => /\ Quiescent'
               /\ last'.res = "invalid_cf" /\ ~last'.eng
               /\ UNCHANGED <<cf_handles_, handleVars, engVars>> ]_vars

\* A call of op that is given the name nm starts in this step.
CallStartsNamed(op, nm) ==
    /\ Quiescent
    /\ \/ \E t \in Threads : pc'[t].op = op /\ pc'[t].nm = nm
       \/ Quiescent' /\ last'.op = op /\ last'.nm = nm

\* The session is open: not closed, nor being closed.
Open == db_ # NULL /\ ~is_closed_

\* C11: while the session is open its registry holds a valid handle for the
\* default column family, and drop_column_family given the default family's
\* handle returns at once with the cannot-drop-default error, makes no engine
\* call and leaves the registry, the handles and the engine as they were.
C11_DefaultNeverDropped ==
    /\ [](Open => (get_default_cf # NULL /\ is_valid(get_default_cf)
                     /\ name_[get_default_cf] = kDefaultColumnFamilyName))
    /\ [][ \A h \in Allocated :
             (Open /\ name_[h] = kDefaultColumnFamilyName
                   /\ CallStartsOn("drop_column_family", h))
               => /\ Quiescent'
                  /\ last'.res = "cannot_drop_default" /\ ~last'.eng
                  /\ UNCHANGED <<cf_handles_, handleVars, engVars>> ]_vars

\* C11 witness: after a column family was created and dropped again,
\* drop_column_family has refused the default family's handle.
C11_DefaultDropRefused ==
    /\ last.op = "drop_column_family" /\ last.res = "cannot_drop_default"
    /\ last.h = get_default_cf /\ Open
    /\ \E h \in Allocated : eng[h] = "destroyed"

\* C12: when the engine refuses the drop inside drop_column_family the call
\* returns the engine's error and the family is registered as before:
\* get_column_family of its name returns the handle and the handle is valid;
\* and on an open session every family the engine holds is registered under
\* its name with a valid handle.
C12_FailedDropStaysRegistered ==
    /\ [](Open => \A h \in Allocated :
                     eng[h] = "live" => (get_column_family(name_[h]) = h /\ is_valid(h)))
    /\ [][ \A t \in Threads :
             (pc[t].op = "drop_column_family" /\ pc[t].ph = "drop" /\ pc'[t] = Idle)
               => /\ last'.res = "engine_error"
                  /\ cf_handles_'[name_[pc[t].h]] = pc[t].h
                  /\ cf_handle_'[pc[t].h] # NULL ]_vars

\* C12 witness: drop_column_family has returned the engine's error for a family
\* the engine still holds, and the family is registered with a valid handle.
C12_DropFailedInEngine ==
    /\ last.op = "drop_column_family" /\ last.res = "engine_error"
    /\ eng[last.h] = "live" /\ Open
    /\ get_column_family(name_[last.h]) = last.h /\ is_valid(last.h)

\* C14: on an open session create_column_family given a name that is in the
\* registry, the default family's included, returns at once with the
\* already-exists error, makes no engine call and leaves the registry, the
\* handles and the engine as they were.
C14_CreateExistingRejected ==
    [][ \A nm \in CFNames :
          (db_ # NULL /\ get_column_family(nm) # NULL
                      /\ CallStartsNamed("create_column_family", nm))
            => /\ Quiescent'
               /\ last'.res = "already_exists" /\ ~last'.eng
               /\ UNCHANGED <<cf_handles_, handleVars, engVars>> ]_vars

\* C14 witness: create_column_family has refused the name of a family created
\* before, and has refused the default family's name.
C14_CreateRefusedCreated ==
    /\ last.op = "create_column_family" /\ last.res = "already_exists"
    /\ last.nm # kDefaultColumnFamilyName
    /\ get_column_family(last.nm) # NULL /\ Open

\* C15: a create_column_family that succeeds returns a handle object that did
\* not exist before, is valid and carries the name given; get_column_family of
\* the name returns that object afterwards, and every other entry of the
\* registry is as it was.
C15_CreateRegisters ==
    [][ \A t \in Threads :
          (pc[t].op = "create_column_family" /\ pc'[t] = Idle /\ last'.res = "ok")
            => /\ last'.h \in Allocated' \ Allocated
               /\ cf_handle_'[last'.h] # NULL
               /\ name_'[last'.h] = pc[t].nm
               /\ cf_handles_'[pc[t].nm] = last'.h
               /\ \A n \in CFNames \ {pc[t].nm} :
                      get_column_family(n)' = get_column_family(n) ]_vars

\* C15 witness: a second column family of the same name has been created after
\* the first was dropped, and is registered under the name.
C15_CreatedAgain ==
    /\ last.op = "create_column_family" /\ last.res = "ok"
    /\ get_column_family(last.nm) = last.h /\ is_valid(last.h)
    /\ \E h \in Allocated : h # last.h /\ name_[h] = last.nm /\ eng[h] = "destroyed"

\* C13: on an open session put_cf, get_cf, delete_cf, new_cf_iterator and
\* drop_column_family given the valid handle object of another session return
\* at once with the invalid-handle error, make no engine call and leave the
\* registry, the handles and the engine as they were.
C13_ForeignHandleRejected ==
    [][ \A op \in HandleOps :
          (Open /\ is_valid(OtherHandle) /\ CallStartsOn(op, OtherHandle))
            => /\ Quiescent'
               /\ last'.res = "invalid_cf" /\ ~last'.eng
               /\ UNCHANGED <<cf_handles_, handleVars, engVars>> ]_vars

\* C16: whatever the interleaving of the calls of two threads on an open
\* session, a create_column_family that fails for a name that is in the
\* registry when it returns (another call has created it) has failed with the
\* already-exists error without calling the engine, and between calls every
\* family the engine holds is registered under its name with a valid handle.
C16_CreateRaceAtomic ==
    /\ (last.op = "create_column_family" /\ last.res # "ok" /\ Open /\ ~late
           /\ get_column_family(last.nm) # NULL)
         => (last.res = "already_exists" /\ ~last.eng)
    /\ (Quiescent /\ Open)
         => \A h \in Allocated :
               eng[h] = "live" => (get_column_family(name_[h]) = h /\ is_valid(h))

\* The records of the batch staged with a handle object that is no longer valid.
StaleInBatch == {f \in wb_ : f \in Allocated /\ ~is_valid(f)}

\* C17: a write(batch) that returns while the batch holds a record staged with
\* a handle that has become invalid since has failed, and has applied none of
\* the records of the batch to any column family.
C17_StaleBatchRejected ==
    (last.op = "write" /\ StaleInBatch # {})
        => (last.res # "ok" /\ last.ap = {})

\* C18: a staging method of the batch (put, put_cf, delete, delete_cf, merge,
\* merge_cf, clear) returns at once, makes no engine call, changes no family's
\* contents and leaves session, registry, handles, leases and engine as they
\* were.
C18_StagingChangesOnlyBatch ==
    [][ \A op \in StagingOps :
          CallStarts(op)
            => /\ Quiescent'
               /\ ~last'.eng /\ last'.ap = {}
               /\ UNCHANGED <<sessVars, handleVars, iterVars, engVars, late>> ]_vars

\* C18 witness: a record has been staged for a created column family, and the
\* batch holds records for two families.
C18_StagedForCreated ==
    /\ last.op = "batch_put_cf" /\ last.res = "ok" /\ last.h # get_default_cf
    /\ Cardinality(wb_) = 2 /\ Open

\* C19 as claimed: every staging method succeeds, whatever the state of the
\* session and of the handle it is given.
C19_StagingNeverFails ==
    last.op \in StagingOps => last.res = "ok"

\* C19 as amended: put, delete, merge and clear always succeed; put_cf,
\* delete_cf and merge_cf succeed when the handle they are given is valid, and
\* otherwise fail with the invalid-handle error and leave the batch as it was.
C19_StagingFailsOnInvalidHandleOnly ==
    [][ \A op \in StagingOps :
          CallStarts(op)
            => /\ Quiescent'
               /\ IF op \in CfStagingOps /\ cf_handle_[last'.h] = NULL
                    THEN last'.res = "invalid_cf" /\ UNCHANGED wb_
                    ELSE last'.res = "ok" ]_vars

\* C19 witness: merge_cf has thrown for the handle of a dropped column family
\* on an open session.
C19_StagingThrew ==
    /\ last.op = "batch_merge_cf" /\ last.res = "invalid_cf"
    /\ eng[last.h] = "destroyed" /\ Open

\* The names of the valid handle objects in the registry.
ValidRegisteredNames == {name_[h] : h \in {g \in Registered : is_valid(g)}}

\* C20: on an open session that was given only its own handles,
\* list_column_families, when it returns, returns exactly the names of the
\* valid handles of the registry.
C20_ListIsRegistry ==
    (last.op = "list_column_families" /\ last.res = "ok" /\ Open
        /\ eng[OtherHandle] = "live" /\ is_valid(OtherHandle))
      => last.out = ValidRegisteredNames

\* The operations that ask the session about itself and change nothing.
QueryOps == {"get_column_family", "default_cf", "get_options", "list_column_families"}

\* C21: after close() has completed, a query operation (get_column_family,
\* default_cf, get_options, list_column_families) fails with the closed-session
\* error instead of returning a result.
C21_QueriesFailWhenClosed ==
    (Quiescent /\ last.op \in QueryOps /\ db_ = NULL /\ is_closed_)
        => last.res = "db_closed"

\* C22: opening a path where no store exists, with no options or with
\* create_if_missing true, does not fail for the missing store, and when the
\* engine opens the store the session is open and its registry holds exactly
\* one handle, the valid handle of the default column family.
C22_OpenNewStoreHasDefaultOnly ==
    [][(CallStarts("open") /\ ~db_likely_exists /\ last'.nm \in {"none", "create"})
          => /\ last'.res \in {"ok", "open_failed"}
             /\ last'.res = "ok" =>
                  /\ alive' /\ db_' # NULL /\ ~is_closed_'
                  /\ cf_handles_'[kDefaultColumnFamilyName] # NULL
                  /\ cf_handle_'[cf_handles_'[kDefaultColumnFamilyName]] # NULL
                  /\ name_'[cf_handles_'[kDefaultColumnFamilyName]] = kDefaultColumnFamilyName
                  /\ \A n \in CFNames \ {kDefaultColumnFamilyName} : cf_handles_'[n] = NULL]_vars

C22_OpenedNewStore ==
    /\ last.op = "open" /\ last.res = "ok" /\ last.nm = "none"
    /\ Registered = {cf_handles_[kDefaultColumnFamilyName]} /\ Open

\* C23: when the engine opens an existing store, the registry holds exactly
\* one valid handle per column family the store holds: get_column_family
\* returns a handle of that name for a family created earlier and not dropped,
\* and None for a family that was dropped; no two names share a handle.
C23_ReopenRestoresRegistry ==
    [][(CallStarts("open") /\ db_likely_exists /\ last'.res = "ok")
          => /\ \A n \in CFNames :
                  IF n \in EngineFamilies
                    THEN /\ cf_handles_'[n] # NULL
                         /\ cf_handle_'[cf_handles_'[n]] # NULL
                         /\ name_'[cf_handles_'[n]] = n
                    ELSE cf_handles_'[n] = NULL
             /\ \A n, m \in EngineFamilies : cf_handles_'[n] = cf_handles_'[m] => n = m
             /\ EngineFamilies' = EngineFamilies]_vars

C23_ReopenedWithCreated ==
    /\ last.op = "open" /\ last.res = "ok" /\ "cf1" \in last.out
    /\ get_column_family("cf1") # NULL /\ is_valid(get_column_family("cf1"))

\* C24: opening a path where no store exists with create_if_missing false
\* fails with the error that the database does not exist, without a call of
\* the engine; afterwards there is no store, no session, no handle object with
\* an engine handle.
C24_OpenMissingFails ==
    [][(CallStarts("open") /\ ~db_likely_exists /\ last'.nm = "no_create")
          => /\ last'.res = "does_not_exist" /\ ~last'.eng
             /\ ~alive' /\ db_' = NULL
             /\ ~db_likely_exists'
             /\ \A n \in CFNames : cf_handles_'[n] = NULL
             /\ \A h \in HandleIds : cf_handle_'[h] = NULL /\ eng'[h] = "none"]_vars

C24_OpenMissingThrew ==
    /\ last.op = "open" /\ last.nm = "no_create" /\ last.res = "does_not_exist"
    /\ ~db_likely_exists

\* The engine family a get or get_cf that has returned was about.
ReadFamily == IF last.op = "get" THEN get_default_cf_handle ELSE CfFamily(last.h)

\* C26: on an open session a get or get_cf that reached the engine either
\* returns or raises the engine's failure; when it returns, it returns None
\* exactly when nothing is stored under the key and the stored bytes
\* otherwise, so a stored empty value is not None, and None never stands for
\* a failure of the engine.
C26_AbsentIsNoneErrorsRaise ==
    (last.op \in {"get", "get_cf"} /\ last.eng /\ last.k \in Keys)
        => /\ last.res \in {"ok", "engine_error"}
           /\ last.res = "ok" =>
                /\ ~kv[ReadFamily][last.k].found => last.val = PyNone
                /\ kv[ReadFamily][last.k].found =>
                     /\ last.val = PyBytes(kv[ReadFamily][last.k].value)
                     /\ last.val # PyNone

C26_GetCfReturnedNone ==
    /\ last.op = "get_cf" /\ last.eng /\ last.res = "ok" /\ last.k \in Keys
    /\ last.val = PyNone /\ Open
    /\ kv[get_default_cf_handle][last.k] = Stored("")

\* The engine family a put, del or get on the default family was about.
WrittenFamily == get_default_cf_handle

\* C27: after put(k, v) has returned, a get(k) the engine answers returns
\* exactly v, the empty value included; after delete(k) has returned it returns
\* None; and a get that returned gave what a get of that key returns.
C27_PutGetRoundTrip ==
    /\ (last.op = "put" /\ last.res = "ok" /\ last.k \in Keys)
         => KeyCallResult("get", "ok", WrittenFamily, last.k)
              = [res |-> "ok", val |-> PyBytes(last.v)]
    /\ (last.op = "del" /\ last.res = "ok" /\ last.k \in Keys)
         => KeyCallResult("get", "ok", WrittenFamily, last.k)
              = [res |-> "ok", val |-> PyNone]
    /\ (last.op = "get" /\ last.eng /\ last.res = "ok" /\ last.k \in Keys)
         => last.val = KeyCallResult("get", "ok", WrittenFamily, last.k).val

C27_GotEmptyValue ==
    /\ last.op = "get" /\ last.res = "ok" /\ last.k \in Keys
    /\ last.val = PyBytes("") /\ Open

\* C28: a put_cf on a handle changes the contents of the family of that handle
\* only: when it returns, the value is stored under the key in that family, and
\* what get and get_cf return for every other family is as before.
C28_PutCfIsolated ==
    [][\A t \in Threads :
         (pc[t].op = "put_cf" /\ pc[t].ph = "call" /\ last'.k \in Keys)
            => /\ \A g \in HandleIds \ {cf_handle_[pc[t].h]} : kv'[g] = kv[g]
               /\ \A k \in Keys \ {last'.k} : kv'[cf_handle_[pc[t].h]][k]
                                                 = kv[cf_handle_[pc[t].h]][k]
               /\ last'.res = "ok" =>
                    kv'[cf_handle_[pc[t].h]][last'.k] = Stored(last'.v)]_vars

C28_PutCfOtherFamily ==
    /\ last.op = "put_cf" /\ last.res = "ok" /\ last.k \in Keys
    /\ CfFamily(last.h) # get_default_cf_handle
    /\ kv[CfFamily(last.h)][last.k] = Stored(last.v)
    /\ kv[get_default_cf_handle][last.k] \notin {Missing, Stored(last.v)} /\ Open

\* The records of the batch that are for key k of family f.
RecordsFor(f, k) == {i \in DOMAIN rep_ : rep_[i].f = f /\ rep_[i].k = k}

\* C29: a write that returns has applied the staged records in the order they
\* were staged: under every key is what the last record staged for it says (the
\* value of a put, nothing after a delete), and what was there before if the
\* batch has no record for the key.
C29_WriteAppliesInOrder ==
    [][\A t \in Threads :
         (pc[t].op = "write" /\ pc[t].ph = "call" /\ last'.res = "ok")
            => \A f \in HandleIds : \A k \in Keys :
                 IF RecordsFor(f, k) = {}
                   THEN kv'[f][k] = kv[f][k]
                   ELSE LET r == rep_[CHOOSE i \in RecordsFor(f, k) :
                                        \A j \in RecordsFor(f, k) : j <= i]
                        IN kv'[f][k] = IF r.op = "put" THEN Stored(r.v) ELSE Missing]_vars

C29_PutDeletePutWritten ==
    /\ last.op = "write" /\ last.res = "ok" /\ Open
    /\ rep_ = << [op |-> "put", f |-> DefaultFamily, k |-> "k1", v |-> "v1"],
                 [op |-> "del", f |-> DefaultFamily, k |-> "k1", v |-> ""],
                 [op |-> "put", f |-> DefaultFamily, k |-> "k1", v |-> "v2"] >>
    /\ KeyCallResult("get", "ok", get_default_cf_handle, "k1")
         = [res |-> "ok", val |-> PyBytes("v2")]

\* C30: on an open session key() and value() of an iterator return without
\* raising: the key and the value of the entry the cursor is on, and None when
\* it is on no entry (it was never positioned, or it moved past an end).
C30_KeyValueOfCursor ==
    (last.op \in {"key", "value"} /\ cur[last.i].at # "untracked" /\ ~is_closed_)
        => /\ last.res = "ok"
           /\ IF cur[last.i].at \in Keys
                THEN /\ cur[last.i].snap[cur[last.i].at].found
                     /\ last.val = IF last.op = "key"
                                     THEN PyBytes(cur[last.i].at)
                                     ELSE PyBytes(cur[last.i].snap[cur[last.i].at].value)
                ELSE last.val = PyNone

C30_KeyOfFreshCursor ==
    /\ last.op = "key" /\ last.res = "ok" /\ last.val = PyNone /\ Open
    /\ cur[last.i].at = "fresh" /\ Entries(cur[last.i]) # {}

\* C31: drop_column_family takes the family out of the registry first, then
\* asks the engine to drop it: whenever the engine drops a family, the registry
\* no longer holds its name.
C31_UnregisteredBeforeEngineDrop ==
    [][\A h \in HandleIds :
         (eng[h] = "live" /\ eng'[h] = "dropped") => cf_handles_[name_[h]] # h]_vars

\* C32: a lease never outlives its session object: while a lease exists the
\* session object has not been freed, so the session-open check of a lease
\* method reads a session that still exists, also when the session was closed
\* explicitly before.
C32_LeaseNeverOutlivesSession ==
    /\ \A i \in IterIds : lease[i] = "alive" => alive
    /\ (last.op \in IterMethods /\ last.res = "parent_closed") => alive

C32_LeaseOfClosedSessionChecked ==
    /\ last.op \in IterMethods /\ last.res = "parent_closed"
    /\ lease[last.i] = "alive" /\ is_closed_ /\ db_ = NULL /\ alive

(* ------------- the base wrapper (module pyrex, rocksdb_wrapper.cpp) ------- *)
\* The implicit copy constructor of the base PyRocksDBIterator (the class
\* declares a destructor and no copy or move constructor): the copy's it_ is
\* the source's pointer, the same cursor.
BaseIteratorCopy(p) == p

\* ~PyRocksDBIterator of the base wrapper on an object whose it_ is p:
\* if (it_ != nullptr) { delete it_; it_ = nullptr; }
BaseDeleted(freed, p) ==
    IF p = NULL THEN freed
    ELSE [freed EXCEPT ![p] = IF @ < 2 THEN @ + 1 ELSE @]

\* PyRocksDB::new_iterator of the base wrapper, a whole call: it returns
\* PyRocksDBIterator(db_->NewIterator(read_options)) by value; the binding
\* hands Python a new object built from that value by the copy constructor,
\* and the value returned by the C++ function is destroyed when the call ends.
BaseNewIterator(t) ==
    /\ alive /\ CanStart(t) /\ nextI <= MaxIters
    /\ LET cursor == nextI
           temporary == cursor
           handed == BaseIteratorCopy(temporary)
       IN /\ lease' = [lease EXCEPT ![nextI] = "alive"]
          /\ it_' = [it_ EXCEPT ![nextI] = handed]
          /\ cursorFreed' = BaseDeleted(cursorFreed, temporary)
          /\ ReturnAtOnce(t, Returned("new_iterator", "ok", TRUE, 0, nextI, ""))
    /\ nextI' = nextI + 1
    /\ UNCHANGED <<sessVars, handleVars, itCf, cur, dbFreed, eng, kv, late>>

\* A method of the base PyRocksDBIterator: it calls it_->... at once, with no
\* check; on a deleted cursor the engine call is a use after free.
BaseIterMethod(t, i, m) ==
    /\ CanStart(t) /\ lease[i] = "alive"
    /\ \E st \in EngineStatus :
         /\ m # "check_status" => st = "ok"
         /\ ReturnAtOnce(t, Returned(m, st, TRUE, 0, i, ""))
    /\ late' = (late \/ cursorFreed[it_[i]] > 0)
    /\ UNCHANGED <<sessVars, handleVars, iterVars, engVars>>

\* The Python object of a base iterator is collected: ~PyRocksDBIterator.
BaseDispose(t, i) ==
    /\ CanStart(t) /\ lease[i] = "alive"
    /\ lease' = [lease EXCEPT ![i] = "destroyed"]
    /\ it_' = [it_ EXCEPT ![i] = NULL]
    /\ cursorFreed' = BaseDeleted(cursorFreed, it_[i])
    /\ ReturnAtOnce(t, Returned("dispose", "ok", it_[i] # NULL, 0, i, ""))
    /\ UNCHANGED <<sessVars, handleVars, nextI, itCf, cur, dbFreed, eng, kv, late>>

\* PyRocksDB::put of the base wrapper, a whole call: db_->Put(...), and a
\* RocksDBException when the status is not OK.
BasePut(t, k, v) ==
    /\ alive /\ CanStart(t)
    /\ \E st \in EngineStatus :
         /\ kv' = IF st = "ok" THEN [kv EXCEPT ![DefaultFamily][k] = Stored(v)] ELSE kv
         /\ ReturnAtOnce(t, [Returned("put", st, TRUE, 0, 0, "") EXCEPT !.k = k, !.v = v])
    /\ UNCHANGED <<sessVars, handleVars, iterVars, dbFreed, eng, cursorFreed, late>>

\* PyRocksDB::get of the base wrapper, a whole call: bytes when the status is
\* OK, None when it is NotFound, a RocksDBException otherwise.
BaseGet(t, k) ==
    /\ alive /\ CanStart(t)
    /\ \E st \in EngineStatus :
         ReturnAtOnce(t, [Returned("get", IF st = "ok" THEN "ok" ELSE st, TRUE, 0, 0, "")
                            EXCEPT !.k = k,
                                   !.val = IF st = "ok" /\ kv[DefaultFamily][k].found
                                             THEN PyBytes(kv[DefaultFamily][k].value)
                                             ELSE PyNone])
    /\ UNCHANGED <<sessVars, handleVars, iterVars, engVars, late>>

\* A caller of the base wrapper that writes and reads a key, creates
\* iterators, calls their methods and lets them go, one call at a time.
StepBase(t) ==
    \/ BaseNewIterator(t)
    \/ \E k \in Keys : BaseGet(t, k) \/ \E v \in {"", "v1"} : BasePut(t, k, v)
    \/ \E i \in IterIds : BaseDispose(t, i) \/ \E m \in IterMethods : BaseIterMethod(t, i, m)

NextBase == \E t \in Threads : StepBase(t)

SpecBase == Init /\ [][NextBase]_vars

\* C33: in the base wrapper the cursor created by new_iterator belongs to the
\* iterator object handed to the caller: it is never deleted while that
\* object exists, and it is deleted exactly once, when that object is
\* destroyed.
C33_BaseCursorOwnedByLease ==
    \A i \in IterIds :
      /\ lease[i] = "alive" => (it_[i] # NULL /\ cursorFreed[it_[i]] = 0)
      /\ lease[i] = "destroyed" => cursorFreed[i] = 1

\* C34: between the operations of a session the closed flag is true exactly
\* when the engine pointer is null: after a successful open the flag is false
\* and the pointer is set, after close() the flag is true and the pointer null.
C34_ClosedFlagIffNullPointer ==
    /\ (alive /\ Quiescent) => (is_closed_ <=> db_ = NULL)
    /\ (last.op = "open" /\ last.res = "ok") => (~is_closed_ /\ db_ # NULL)
    /\ last.op = "close" => (is_closed_ /\ db_ = NULL)

C34_ClosedAfterOpen ==
    /\ last.op = "close" /\ last.eng /\ alive /\ Quiescent
    /\ is_closed_ /\ db_ = NULL /\ dbFreed = 1

\* C35: while the session is open and no call is under way, every name in
\* the registry names a column family that the engine still has, and its
\* registered handle refers to an engine handle that has not been destroyed,
\* also after a drop_column_family that failed at either of its steps.
C35_RegisteredFamiliesExist ==
    (Open /\ Quiescent) =>
      \A n \in CFNames :
        cf_handles_[n] # NULL =>
          /\ cf_handle_[cf_handles_[n]] # NULL
          /\ eng[cf_handle_[cf_handles_[n]]] = "live"

\* C36: after drop_column_family(h) has succeeded, no method of an iterator
\* created by new_cf_iterator(h) before the drop reaches the cursor: the method
\* fails instead of operating on a cursor over a family whose engine handle
\* has been destroyed.
C36_NoCursorCallAfterDrop ==
    (/\ last.op \in IterMethods
     /\ itCf[last.i] \in HandleIds
     /\ eng[itCf[last.i]] = "destroyed"
     /\ ~is_valid(itCf[last.i]))
      => (~last.eng /\ last.res # "ok")

\* C37: of two threads that call drop_column_family on the same valid
\* non-default handle at the same time, one fails with the invalid-handle
\* error, which the method raises before it does anything: the two calls are
\* never both past the validity check, and a call past the check never finds
\* that the engine has dropped the family already.
C37_OneConcurrentDropPasses ==
    \A t \in Threads : \A u \in Threads \ {t} :
      ~ /\ pc[t].op = "drop_column_family" /\ pc[u].op = "drop_column_family"
        /\ pc[t].h = pc[u].h
        /\ pc[t].ph = "drop" /\ eng[pc[t].h] # "live"

\* C38: a dropped handle never becomes valid again.  Once drop_column_family(h)
\* has succeeded, h is invalid in every later state and the registry never
\* gives h again; right after the drop get_column_family(name) gives nothing
\* and the engine no longer holds the name, so that create_column_family is
\* not refused for it; a create_column_family that succeeds returns a valid
\* handle that the engine has live and that is none of the dropped ones; and
\* a put_cf, get_cf, delete_cf, new_cf_iterator or drop_column_family given h
\* fails with the invalid-handle error, without an engine call.
C38_DroppedHandleStaysInvalid ==
    /\ \A h \in Allocated :
         eng[h] = "destroyed" =>
           /\ ~is_valid(h)
           /\ get_column_family(name_[h]) # h
           /\ (Open /\ Quiescent /\ get_column_family(name_[h]) = NULL)
                => name_[h] \notin EngineFamilies
    /\ (last.op = "drop_column_family" /\ last.res = "ok" /\ Open)
         => get_column_family(name_[last.h]) = NULL
    /\ (last.op = "create_column_family" /\ last.res = "ok")
         => /\ eng[last.h] = "live"
            /\ Open => (is_valid(last.h) /\ get_column_family(last.nm) = last.h)
    /\ (/\ last.op \in HandleOps /\ last.h \in Allocated
        /\ eng[last.h] = "destroyed" /\ Open
        /\ ~(last.op = "drop_column_family" /\ last.res = "ok"))
         => (last.res = "invalid_cf" /\ ~last.eng)

C38_RecreatedAfterDrop ==
    /\ last.op = "create_column_family" /\ last.res = "ok" /\ Open
    /\ is_valid(last.h)
    /\ \E g \in Allocated :
         /\ g # last.h /\ name_[g] = last.nm
         /\ eng[g] = "destroyed" /\ ~is_valid(g)

\* C39: when the engine rejects the creation inside create_column_family, the
\* call raises and returns no handle, the registry and the handle objects are
\* as they were before the call, and the name is still free: neither the
\* registry nor the engine holds it, so a later call can create it.
C39_RejectedCreateChangesNothing ==
    [][\A t \in Threads :
         (/\ pc[t].op = "create_column_family" /\ pc[t].ph = "call"
          /\ pc'[t] = Idle /\ last'.res = "engine_error")
           => /\ last'.op = "create_column_family" /\ last'.h = 0
              /\ cf_handles_' = cf_handles_
              /\ handleVars' = handleVars
              /\ eng' = eng
              /\ cf_handles_'[pc[t].nm] = NULL
              /\ pc[t].nm \notin EngineFamilies']_vars

C39_CreateRejected ==
    /\ last.op = "create_column_family" /\ last.res = "engine_error" /\ last.eng
    /\ Open /\ Quiescent
    /\ cf_handles_[last.nm] = NULL /\ last.nm \notin EngineFamilies

====
